---- MODULE Spec2Model ----
(***************************************************************************)
(* A model of the raw-window-handle crate (src/lib.rs): the conditional    *)
(* compilation of the platform modules and of the RawWindowHandle          *)
(* variants, the derived equality and hashing of RawWindowHandle, and      *)
(* TrustedWindowHandle with its constructor `new` and its accessor         *)
(* `raw_window_handle`.                                                     *)
(*                                                                         *)
(* The payload structs (ios::IOSHandle, unix::XlibHandle, ...) live in the *)
(* platform modules, whose files are not part of src/; their shape is      *)
(* taken from the specification: a record of native scalar fields, an      *)
(* `empty` constructor with every field zero/null, and field-wise          *)
(* equality and hashing.                                                   *)
(***************************************************************************)
EXTENDS Integers, Sequences, FiniteSets, TLC

(***************************************************************************)
(* Bounds of the model.                                                    *)
(***************************************************************************)
\* Native field values range over 0..MaxVal; 0 is the zero/null sentinel.
MaxVal == 1
\* At most MaxWrappers calls of TrustedWindowHandle::new in one run.
MaxWrappers == 1
\* Threads 1..NumThreads call raw_window_handle.
NumThreads == 2

Values == 0..MaxVal
Threads == 1..NumThreads

(***************************************************************************)
(* Build configurations: target_os, target_arch, feature "nightly-docs".   *)
(***************************************************************************)
\* The operating systems named by the cfg predicates of lib.rs, plus two
\* targets none of the predicates names ("unknown" is the target_os of
\* wasm32-unknown-unknown, "fuchsia" a target the crate does not support).
UnixOs == {"linux", "dragonfly", "freebsd", "netbsd", "openbsd", "solaris"}

WaylandOs == {"linux", "dragonfly", "freebsd", "netbsd", "openbsd"}

TargetOs ==
    UnixOs \cup {"android", "ios", "macos", "redox", "windows",
                 "unknown", "fuchsia"}

TargetArch == {"x86_64", "wasm32"}

Modules == {"android", "ios", "macos", "redox", "unix", "web", "windows"}

\* The variants of RawWindowHandle in declaration order.
VariantOrder ==
    << "IOS", "MacOS", "Redox", "Xlib", "Xcb", "Wayland",
       "Windows", "WinRT", "Web", "Android" >>

AllVariants == { VariantOrder[i] : i \in 1..Len(VariantOrder) }

\* #[cfg_attr(not(feature = "nightly-docs"), cfg(pred))]: with the feature
\* off the item carries cfg(pred); with the feature on it carries only
\* doc(cfg(pred)), which does not remove it from the build.
CfgAttr(nightly, pred) == nightly \/ pred

\* Mutant: the unix module gated by the Wayland list (solaris left out).
ModuleCfg_NoSolaris(m, os, arch) ==
    CASE m = "android" -> os = "android"
      [] m = "ios"     -> os = "ios"
      [] m = "macos"   -> os = "macos"
      [] m = "redox"   -> os = "redox"
      [] m = "unix"    -> os \in WaylandOs
      [] m = "web"     -> arch = "wasm32"
      [] m = "windows" -> os = "windows"

\* The cfg predicate of each `pub mod` declaration.
ModuleCfg(m, os, arch) ==
    CASE m = "android" -> os = "android"
      [] m = "ios"     -> os = "ios"
      [] m = "macos"   -> os = "macos"
      [] m = "redox"   -> os = "redox"
      [] m = "unix"    -> os \in UnixOs
      [] m = "web"     -> arch = "wasm32"
      [] m = "windows" -> os = "windows"

\* Mutant: the Web variant gated by target_os instead of target_arch.
VariantCfg_WebByOs(v, os, arch) ==
    CASE v = "IOS"     -> os = "ios"
      [] v = "MacOS"   -> os = "macos"
      [] v = "Redox"   -> os = "redox"
      [] v = "Xlib"    -> os \in UnixOs
      [] v = "Xcb"     -> os \in UnixOs
      [] v = "Wayland" -> os \in WaylandOs
      [] v = "Windows" -> os = "windows"
      [] v = "WinRT"   -> os = "windows"
      [] v = "Web"     -> os = "unknown"
      [] v = "Android" -> os = "android"

\* The cfg predicate of each variant of RawWindowHandle.
VariantCfg(v, os, arch) ==
    CASE v = "IOS"     -> os = "ios"
      [] v = "MacOS"   -> os = "macos"
      [] v = "Redox"   -> os = "redox"
      [] v = "Xlib"    -> os \in UnixOs
      [] v = "Xcb"     -> os \in UnixOs
      [] v = "Wayland" -> os \in WaylandOs
      [] v = "Windows" -> os = "windows"
      [] v = "WinRT"   -> os = "windows"
      [] v = "Web"     -> arch = "wasm32"
      [] v = "Android" -> os = "android"

\* The module whose payload type each variant names (ios::IOSHandle, ...).
ModuleOf(v) ==
    CASE v = "IOS"     -> "ios"
      [] v = "MacOS"   -> "macos"
      [] v = "Redox"   -> "redox"
      [] v = "Xlib"    -> "unix"
      [] v = "Xcb"     -> "unix"
      [] v = "Wayland" -> "unix"
      [] v = "Windows" -> "windows"
      [] v = "WinRT"   -> "windows"
      [] v = "Web"     -> "web"
      [] v = "Android" -> "android"

CompiledModules(os, arch, nightly) ==
    { m \in Modules : CfgAttr(nightly, ModuleCfg(m, os, arch)) }

CompiledVariants(os, arch, nightly) ==
    { v \in AllVariants : CfgAttr(nightly, VariantCfg(v, os, arch)) }

FamiliesOf(vs) == { ModuleOf(v) : v \in vs }


(***************************************************************************)
(* Handle payloads and the RawWindowHandle enum.                           *)
(***************************************************************************)
\* The fields of each payload struct in declaration order: a window/surface
\* handle and, for the X11 and Wayland payloads, a display/connection handle.
FieldOrder(v) ==
    IF v \in {"Xlib", "Xcb", "Wayland"}
    THEN << "handle", "display" >>
    ELSE << "handle" >>

Fields(v) == { FieldOrder(v)[i] : i \in 1..Len(FieldOrder(v)) }

Payloads(v) == [ Fields(v) -> Values ]

\* The `empty` constructor of a payload struct: every field zero/null.
empty(v) == [ f \in Fields(v) |-> 0 ]

\* Struct update syntax: Handle { f: val, ..Handle::empty() }.
SetField(p, f, val) == [ p EXCEPT ![f] = val ]

\* RawWindowHandle::V(payload).
Variant(v, p) == [ tag |-> v, payload |-> p ]

\* All RawWindowHandle values of a build with the variants vs.
Handles(vs) == UNION { { Variant(v, p) : p \in Payloads(v) } : v \in vs }

\* Option values: None is <<>>, Some(x) is <<x>>.
None == << >>
Some(x) == << x >>

\* core::mem::discriminant: the position of the variant among the variants
\* compiled in, counted from 0 in declaration order.
Discriminant(v, vs) ==
    Cardinality({ i \in 1..Len(VariantOrder) :
                    /\ VariantOrder[i] \in vs
                    /\ \E j \in 1..Len(VariantOrder) :
                          VariantOrder[j] = v /\ i < j })

\* derive(PartialEq) of a payload struct: the conjunction over its fields.
PayloadEq(v, p, q) ==
    \A i \in 1..Len(FieldOrder(v)) : p[FieldOrder(v)[i]] = q[FieldOrder(v)[i]]

\* derive(Hash) of a payload struct: every field is written to the hasher
\* in declaration order.
PayloadHash(v, p) ==
    [ i \in 1..Len(FieldOrder(v)) |-> p[FieldOrder(v)[i]] ]

\* Mutant: only the variant tags are compared.
RawWindowHandleEq_TagOnly(a, b, vs) ==
    Discriminant(a.tag, vs) = Discriminant(b.tag, vs)

\* Mutant: only the payloads are compared.
RawWindowHandleEq_IgnoreTag(a, b, vs) ==
    /\ Fields(a.tag) = Fields(b.tag)
    /\ PayloadEq(a.tag, a.payload, b.payload)

\* derive(PartialEq, Eq) of RawWindowHandle: the discriminants are compared
\* first, then the payloads of the common variant.
RawWindowHandleEq(a, b, vs) ==
    IF Discriminant(a.tag, vs) # Discriminant(b.tag, vs)
    THEN FALSE
    ELSE PayloadEq(a.tag, a.payload, b.payload)

\* derive(Hash) of RawWindowHandle: the words written to the caller's
\* Hasher, the discriminant first and then the payload's fields.  The hash
\* value is whatever the hasher makes of this stream of writes.
RawWindowHandleHash(x, vs) ==
    << Discriminant(x.tag, vs) >> \o PayloadHash(x.tag, x.payload)

(***************************************************************************)
(* TrustedWindowHandle.                                                    *)
(***************************************************************************)
\* Mutant: the wrapper is built from the empty payload of the variant.
new_Empty(raw) == [ raw |-> Variant(raw.tag, empty(raw.tag)) ]

\* Mutant: the wrapper keeps the first field only.
new_FirstFieldOnly(raw) ==
    [ raw |-> Variant(raw.tag,
                      SetField(empty(raw.tag), "handle", raw.payload["handle"])) ]

\* pub const unsafe fn new(raw: RawWindowHandle) -> Self { Self { raw } }
new(raw) == [ raw |-> raw ]

\* Mutant: the accessor returns the handle with its first field cleared.
raw_window_handle_Cleared(self) ==
    Variant(self.raw.tag, SetField(self.raw.payload, "handle", 0))

\* fn raw_window_handle(&self) -> RawWindowHandle { self.raw }
raw_window_handle(self) == self.raw


(***************************************************************************)
(* State.                                                                  *)
(***************************************************************************)
VARIABLES
    target_os,      \* cfg(target_os) of the build
    target_arch,    \* cfg(target_arch) of the build
    nightly_docs,   \* whether feature "nightly-docs" is on
    built,          \* whether the crate has been compiled
    variants,       \* the RawWindowHandle variants compiled in
    modules,        \* the platform modules compiled in
    lhs, rhs,       \* two RawWindowHandle values being compared
    eq_out,         \* Option: the result of lhs == rhs
    hash_out,       \* Option: the pair of hasher streams of lhs and rhs
    wrappers,       \* the TrustedWindowHandle values created so far
    asserted,       \* history: the argument of each call of new
    pc,             \* per thread: "idle" or "calling"
    self,           \* per thread: the wrapper of its current or last call
    ret,            \* per thread: Option, the value its last call returned
    returned        \* history: per wrapper, the set of values returned

build_vars == << target_os, target_arch, nightly_docs, built, variants, modules >>
cmp_vars == << lhs, rhs, eq_out, hash_out >>
wrapper_vars == << wrappers, asserted, pc, self, ret, returned >>
vars == << build_vars, cmp_vars, wrapper_vars >>

\* Nothing compared, no wrapper, every thread idle.
CmpIdle ==
    /\ lhs = None /\ rhs = None /\ eq_out = None /\ hash_out = None

WrapperIdle ==
    /\ wrappers = << >>
    /\ asserted = << >>
    /\ returned = << >>
    /\ pc = [ t \in Threads |-> "idle" ]
    /\ self = [ t \in Threads |-> 0 ]
    /\ ret = [ t \in Threads |-> None ]

\* The crate compiled for the chosen configuration.
Compiled ==
    /\ built = TRUE
    /\ variants = CompiledVariants(target_os, target_arch, nightly_docs)
    /\ modules = CompiledModules(target_os, target_arch, nightly_docs)

(***************************************************************************)
(* Compilation: every configuration, then the build.                       *)
(***************************************************************************)
InitBuild ==
    /\ target_os \in TargetOs
    /\ target_arch \in TargetArch
    /\ nightly_docs \in BOOLEAN
    /\ built = FALSE
    /\ variants = {}
    /\ modules = {}
    /\ CmpIdle
    /\ WrapperIdle

Build ==
    /\ built = FALSE
    /\ built' = TRUE
    /\ variants' = CompiledVariants(target_os, target_arch, nightly_docs)
    /\ modules' = CompiledModules(target_os, target_arch, nightly_docs)
    /\ UNCHANGED << target_os, target_arch, nightly_docs, cmp_vars, wrapper_vars >>

NextBuild == Build

SpecBuild == InitBuild /\ [][NextBuild]_vars

(***************************************************************************)
(* Comparison and hashing of two handles of one build.                     *)
(***************************************************************************)
InitEq ==
    /\ target_os \in TargetOs
    /\ target_arch \in TargetArch
    /\ nightly_docs \in BOOLEAN
    /\ Compiled
    /\ lhs \in { Some(x) : x \in Handles(variants) }
    /\ rhs \in { Some(x) : x \in Handles(variants) }
    /\ eq_out = None
    /\ hash_out = None
    /\ WrapperIdle

\* lhs == rhs
DoEq ==
    /\ eq_out = None
    /\ eq_out' = Some(RawWindowHandleEq(lhs[1], rhs[1], variants))
    /\ UNCHANGED << build_vars, lhs, rhs, hash_out, wrapper_vars >>

\* lhs.hash(&mut h1); rhs.hash(&mut h2)
DoHash ==
    /\ hash_out = None
    /\ hash_out' = Some(<< RawWindowHandleHash(lhs[1], variants),
                           RawWindowHandleHash(rhs[1], variants) >>)
    /\ UNCHANGED << build_vars, lhs, rhs, eq_out, wrapper_vars >>

NextEq == DoEq \/ DoHash

SpecEq == InitEq /\ [][NextEq]_vars


(***************************************************************************)
(* TrustedWindowHandle in a running program: an owner creates wrappers     *)
(* with `new`, threads call `raw_window_handle` on them.                   *)
(***************************************************************************)
\* The targets a program using the crate runs on, one for each set of
\* variants a build without "nightly-docs" can have: x86_64-unknown-linux-gnu
\* (standing for the five systems with Xlib, Xcb and Wayland),
\* x86_64-pc-solaris, x86_64-linux-android, x86_64-apple-ios,
\* x86_64-apple-darwin, x86_64-unknown-redox, x86_64-pc-windows-msvc and
\* wasm32-unknown-unknown.
RunTargets ==
    { << "linux", "x86_64" >>, << "solaris", "x86_64" >>,
      << "android", "x86_64" >>, << "ios", "x86_64" >>,
      << "macos", "x86_64" >>, << "redox", "x86_64" >>,
      << "windows", "x86_64" >>, << "unknown", "wasm32" >> }

\* The program is built without "nightly-docs", the feature of the
\* documentation build; the eight targets cover all ten variants.
Init ==
    /\ \E tgt \in RunTargets : target_os = tgt[1] /\ target_arch = tgt[2]
    /\ nightly_docs = FALSE
    /\ Compiled
    /\ CmpIdle
    /\ WrapperIdle

\* let w = unsafe { TrustedWindowHandle::new(x) };
New(x) ==
    /\ Len(wrappers) < MaxWrappers
    /\ wrappers' = Append(wrappers, new(x))
    /\ asserted' = Append(asserted, x)
    /\ returned' = Append(returned, {})
    /\ UNCHANGED << build_vars, cmp_vars, pc, self, ret >>

\* Thread t enters w.raw_window_handle().
Call(t, w) ==
    /\ pc[t] = "idle"
    /\ pc' = [ pc EXCEPT ![t] = "calling" ]
    /\ self' = [ self EXCEPT ![t] = w ]
    /\ ret' = [ ret EXCEPT ![t] = None ]
    /\ UNCHANGED << build_vars, cmp_vars, wrappers, asserted, returned >>

\* Mutant: the accessor takes the value out of the wrapper (mem::take
\* style), leaving the empty payload behind.
Return_Taking(t) ==
    /\ pc[t] = "calling"
    /\ LET out == raw_window_handle(wrappers[self[t]]) IN
         /\ ret' = [ ret EXCEPT ![t] = Some(out) ]
         /\ returned' = [ returned EXCEPT ![self[t]] = @ \cup {out} ]
         /\ wrappers' = [ wrappers EXCEPT ![self[t]] =
                            [ raw |-> Variant(out.tag, empty(out.tag)) ] ]
    /\ pc' = [ pc EXCEPT ![t] = "idle" ]
    /\ UNCHANGED << build_vars, cmp_vars, asserted, self >>

\* Mutant: only the first call on a wrapper returns the wrapped value, later
\* calls return the empty payload.
Return_FirstOnly(t) ==
    /\ pc[t] = "calling"
    /\ LET raw == raw_window_handle(wrappers[self[t]])
           out == IF returned[self[t]] = {} THEN raw
                  ELSE Variant(raw.tag, empty(raw.tag)) IN
         /\ ret' = [ ret EXCEPT ![t] = Some(out) ]
         /\ returned' = [ returned EXCEPT ![self[t]] = @ \cup {out} ]
    /\ pc' = [ pc EXCEPT ![t] = "idle" ]
    /\ UNCHANGED << build_vars, cmp_vars, wrappers, asserted, self >>

\* Mutant: a call that overlaps another call on the same wrapper reads a
\* torn value (the tag, but a zeroed payload).
Return_Torn(t) ==
    /\ pc[t] = "calling"
    /\ LET raw == raw_window_handle(wrappers[self[t]])
           overlap == \E u \in Threads \ {t} :
                          pc[u] = "calling" /\ self[u] = self[t]
           out == IF overlap THEN Variant(raw.tag, empty(raw.tag)) ELSE raw IN
         /\ ret' = [ ret EXCEPT ![t] = Some(out) ]
         /\ returned' = [ returned EXCEPT ![self[t]] = @ \cup {out} ]
    /\ pc' = [ pc EXCEPT ![t] = "idle" ]
    /\ UNCHANGED << build_vars, cmp_vars, wrappers, asserted, self >>

\* Thread t's call reads self.raw and returns the copy; the wrapper is
\* borrowed shared (&self) and is left as it is.
Return(t) ==
    /\ pc[t] = "calling"
    /\ LET out == raw_window_handle(wrappers[self[t]]) IN
         /\ ret' = [ ret EXCEPT ![t] = Some(out) ]
         /\ returned' = [ returned EXCEPT ![self[t]] = @ \cup {out} ]
    /\ pc' = [ pc EXCEPT ![t] = "idle" ]
    /\ UNCHANGED << build_vars, cmp_vars, wrappers, asserted, self >>

Next ==
    \/ \E x \in Handles(variants) : New(x)
    \/ \E t \in Threads : \E w \in 1..Len(wrappers) : Call(t, w)
    \/ \E t \in Threads : Return(t)

Spec == Init /\ [][Next]_vars


(***************************************************************************)
(* Properties.                                                             *)
(***************************************************************************)
\* The value a thread holds from its last call, and the argument of the call
\* of new that made the wrapper it called.
Got(t) == ret[t][1]
Given(t) == asserted[self[t]]

\* C1: TrustedWindowHandle::new(x).raw_window_handle() returns a value equal
\* to x: the derived == says so, the variant tag is the same and every
\* payload field is unmodified.
C1_RoundTrip ==
    \A t \in Threads :
        ret[t] # None =>
            /\ RawWindowHandleEq(Got(t), Given(t), variants)
            /\ Got(t).tag = Given(t).tag
            /\ \A f \in Fields(Given(t).tag) :
                   Got(t).payload[f] = Given(t).payload[f]

\* A call has returned a handle with a non-null field.
C1_Witness ==
    \E t \in Threads : ret[t] # None /\ Got(t).payload["handle"] # 0

\* C2: all calls of raw_window_handle on one wrapper return the same value:
\* the values a wrapper has ever returned are at most one, and any two
\* threads holding a result of the same wrapper hold equal handles.
C2_Stable ==
    /\ \A w \in 1..Len(returned) : Cardinality(returned[w]) <= 1
    /\ \A t, u \in Threads :
          (ret[t] # None /\ ret[u] # None /\ self[t] = self[u]) =>
              RawWindowHandleEq(Got(t), Got(u), variants)

\* Two calls on the same wrapper have returned a non-empty handle.
C2_Witness ==
    \E t, u \in Threads :
        /\ t # u
        /\ ret[t] # None /\ ret[u] # None
        /\ self[t] = self[u]
        /\ Got(t).payload # empty(Got(t).tag)

\* C3: an empty payload with exactly one field f set to a nonzero v, wrapped
\* in its variant and passed to new, is returned by raw_window_handle with
\* that variant tag, field f equal to v and every other field zero.
C3_Scenario ==
    \A t \in Threads :
        ret[t] # None =>
            \A v \in variants : \A f \in Fields(v) : \A val \in Values \ {0} :
                Given(t) = Variant(v, SetField(empty(v), f, val)) =>
                    /\ Got(t).tag = v
                    /\ Got(t).payload[f] = val
                    /\ \A g \in Fields(v) \ {f} : Got(t).payload[g] = 0

\* The scenario with the second field of a two-field payload: an Xlib handle
\* with only its display set has been wrapped and read back.
C3_Witness ==
    \E t \in Threads :
        /\ ret[t] # None
        /\ Given(t) = Variant("Xlib", SetField(empty("Xlib"), "display", 1))

\* C4: == on RawWindowHandle is structural: it holds exactly when the tags
\* are the same and the payloads agree field by field; handles that differ
\* in exactly one field are unequal, and handles with different tags are
\* unequal even when all their fields are zero.
C4_StructuralEq ==
    eq_out # None =>
        LET a == lhs[1]
            b == rhs[1]
            sameTag == a.tag = b.tag
            differing == { f \in Fields(a.tag) : a.payload[f] # b.payload[f] }
        IN  /\ eq_out[1] <=> (sameTag /\ differing = {})
            /\ (sameTag /\ Cardinality(differing) = 1) => eq_out[1] = FALSE
            /\ ~sameTag => eq_out[1] = FALSE

\* Two handles of different variants, all fields zero, have been compared.
C4_Witness ==
    /\ eq_out # None
    /\ lhs[1].tag # rhs[1].tag
    /\ lhs[1].payload = empty(lhs[1].tag)
    /\ rhs[1].payload = empty(rhs[1].tag)

\* C5: handles that compare equal hash identically (the hasher is fed the
\* same stream of writes).
C5_HashConsistent ==
    (eq_out # None /\ hash_out # None /\ eq_out[1]) =>
        hash_out[1][1] = hash_out[1][2]

\* Two equal handles with a non-null field have been compared and hashed.
C5_Witness ==
    /\ eq_out = Some(TRUE)
    /\ hash_out # None
    /\ lhs[1].payload["handle"] # 0

\* The operating systems some cfg predicate of lib.rs names, and the family
\* (module) each selects.
ListedOs == UnixOs \cup {"android", "ios", "macos", "redox", "windows"}
OsFamily(os) == IF os \in UnixOs THEN "unix" ELSE os

\* C6 as stated: in every build the set of variants is non-empty, lies in a
\* single platform family and is the same whether nightly-docs is on or off.
C6_Original ==
    built =>
        /\ variants # {}
        /\ Cardinality(FamiliesOf(variants)) = 1
        /\ variants = CompiledVariants(target_os, target_arch, ~nightly_docs)

\* C6 as amended: with nightly-docs off the families compiled in are the
\* family of target_os (if lib.rs names the system) and web (exactly when
\* target_arch is wasm32), and nothing else, so the set is empty on a
\* target lib.rs does not name; with nightly-docs on all ten variants are
\* compiled in.
C6_Amended ==
    built =>
        IF nightly_docs
        THEN variants = AllVariants
        ELSE /\ FamiliesOf(variants) =
                    (IF target_os \in ListedOs THEN {OsFamily(target_os)} ELSE {})
                    \cup (IF target_arch = "wasm32" THEN {"web"} ELSE {})
             /\ Cardinality(FamiliesOf(variants) \ {"web"}) <= 1
             /\ variants = {} <=>
                    (target_os \notin ListedOs /\ target_arch # "wasm32")

\* A build for a target lib.rs does not name: no variant is compiled in.
C6_Witness ==
    /\ built
    /\ ~nightly_docs
    /\ target_os = "fuchsia"
    /\ target_arch = "x86_64"
    /\ variants = {}

\* C7: a wrapper, once made by new(x), stays as it is: every step leaves
\* every existing wrapper in place, unchanged, holding x.
C7_ReadOnly ==
    [][ \A w \in 1..Len(wrappers) :
            /\ Len(wrappers') >= w
            /\ wrappers'[w] = wrappers[w]
            /\ wrappers'[w].raw = asserted[w] ]_vars

\* A call of raw_window_handle has returned and the wrapper it read holds a
\* non-empty handle.
C7_Witness ==
    \E t \in Threads :
        /\ ret[t] # None
        /\ pc[t] = "idle"
        /\ wrappers[self[t]].raw.payload # empty(wrappers[self[t]].raw.tag)

\* C8: every wrapper was produced by a call of new and holds exactly the
\* value passed to that call; the other operations create none.
C8_OnlyNew ==
    /\ Len(wrappers) = Len(asserted)
    /\ \A w \in 1..Len(wrappers) : wrappers[w].raw = asserted[w]

\* A wrapper of a non-empty handle exists and raw_window_handle has been
\* called on it and has returned.
C8_Witness ==
    /\ Len(wrappers) >= 1
    /\ wrappers[1].raw.payload # empty(wrappers[1].raw.tag)
    /\ returned[1] # {}

\* C9: in any interleaving of the threads' calls, every return of
\* raw_window_handle hands back the value passed to new, whatever the other
\* threads are doing, and leaves the wrappers untouched.
C9_Concurrent ==
    [][ \A t \in Threads :
            (pc[t] = "calling" /\ pc'[t] = "idle") =>
                /\ ret'[t] = Some(asserted[self[t]])
                /\ wrappers' = wrappers ]_vars

\* Two threads are inside raw_window_handle on the same wrapper, which
\* holds a non-empty handle and has already returned from an earlier call.
C9_Witness ==
    \E t, u \in Threads :
        /\ t # u
        /\ pc[t] = "calling" /\ pc[u] = "calling"
        /\ self[t] = self[u]
        /\ returned[self[t]] # {}
        /\ asserted[self[t]].payload # empty(asserted[self[t]].tag)

\* C10: every variant compiled in names a payload type of a module that is
\* compiled in as well.
C10_VariantModule ==
    built => \A v \in variants : ModuleOf(v) \in modules

\* A Solaris build: Xlib and Xcb without Wayland, and the unix module.
C10_Witness ==
    /\ built
    /\ ~nightly_docs
    /\ target_os = "solaris"
    /\ variants = {"Xlib", "Xcb"}
    /\ "unix" \in modules

====
